---- MODULE Spec2Model ----
(***************************************************************************)
(* A model of whois/__init__.py: the label normalizer, the suffix          *)
(* classifier (filterTldToSupportedPattern), the query parameter resolver  *)
(* and the progressive retry loop of query().                              *)
(*                                                                         *)
(* Python str values are TLA+ strings (TLC evaluates Len, \o, SubSeq and   *)
(* Tail on them), so lower/strip/rstrip/split/endswith are computed        *)
(* character by character as the interpreter does.  Python lists are       *)
(* sequences.  The collaborators do_query, do_parse, Domain and TLD_RE     *)
(* live in other files of the package; they appear here as the             *)
(* nondeterministic environment of query().                                *)
(***************************************************************************)
EXTENDS Integers, Sequences, FiniteSets, TLC

VARIABLES
    TLD_RE,     \* the TLD metadata registry: identifier -> metadata
    args,       \* the arguments of the query() call under way
    pc,         \* "idle" | "start" | "classified" | "do_query" | "do_parse" | "done"
    domain,     \* the local domain, once normalized (line 214)
    d,          \* the local list d (the current label sequence)
    tld,        \* the local tld (the classified identifier)
    tldLevel,   \* the local tldLevel = tld.split("_")
    server,     \* the local server, as passed to do_query
    slow_down,  \* the local slow_down, as passed to do_query
    lookups,    \* every do_query call made so far, in order
    parses,     \* every do_parse call made so far, with what it returned
    outcome,    \* "running", "record", "None" or the name of the exception raised
    result,     \* the pd the returned Domain was built from
    returned    \* what the entry point called (query or get) handed to its caller

vars == <<TLD_RE, args, pc, domain, d, tld, tldLevel, server, slow_down,
          lookups, parses, outcome, result, returned>>

None == "None"

----------------------------------------------------------------------------
(* Python str and list primitives                                          *)

CharAt(s, i) == SubSeq(s, i, i)

ascii_uppercase == "ABCDEFGHIJKLMNOPQRSTUVWXYZ"
ascii_lowercase == "abcdefghijklmnopqrstuvwxyz"

\* the characters str.lower() changes, each with its lowercase form
uppercase == {CharAt(ascii_uppercase, i) : i \in 1..Len(ascii_uppercase)}

lowerOf ==
    [c \in uppercase |->
        CharAt(ascii_lowercase,
               CHOOSE i \in 1..Len(ascii_uppercase) : CharAt(ascii_uppercase, i) = c)]

lowerChar(c) == IF c \in uppercase THEN lowerOf[c] ELSE c

RECURSIVE lower(_)
lower(s) == IF s = "" THEN "" ELSE lowerChar(CharAt(s, 1)) \o lower(Tail(s))

whitespace == {" ", "\t", "\n"}

RECURSIVE lstripChars(_, _)
lstripChars(s, chars) ==
    IF s # "" /\ CharAt(s, 1) \in chars THEN lstripChars(Tail(s), chars) ELSE s

RECURSIVE rstripChars(_, _)
rstripChars(s, chars) ==
    IF s # "" /\ CharAt(s, Len(s)) \in chars
    THEN rstripChars(SubSeq(s, 1, Len(s) - 1), chars)
    ELSE s

strip(s) == rstripChars(lstripChars(s, whitespace), whitespace)

rstrip(s, chars) == rstripChars(s, chars)

endswith(s, suffix) ==
    /\ Len(suffix) <= Len(s)
    /\ SubSeq(s, Len(s) - Len(suffix) + 1, Len(s)) = suffix

\* s.split(sep) for a one-character sep: "" gives [""], "a..b" gives ["a","","b"]
RECURSIVE split(_, _)
split(s, sep) ==
    IF \E i \in 1..Len(s) : CharAt(s, i) = sep
    THEN LET i == CHOOSE j \in 1..Len(s) :
                     /\ CharAt(s, j) = sep
                     /\ \A h \in 1..(j - 1) : CharAt(s, h) # sep
         IN  <<SubSeq(s, 1, i - 1)>> \o split(SubSeq(s, i + 1, Len(s)), sep)
    ELSE <<s>>

RECURSIVE join(_, _)
join(l, sep) ==
    IF l = <<>> THEN ""
    ELSE IF Len(l) = 1 THEN l[1]
    ELSE l[1] \o sep \o join(Tail(l), sep)

\* l[1:]
Slice1(l) == IF l = <<>> THEN <<>> ELSE Tail(l)

----------------------------------------------------------------------------
(* The translation tables                                                  *)

Map2Underscore == <<
    <<".ac.uk", "ac_uk">>, <<".co.il", "co_il">>,
    <<".ca.ug", "ca_ug">>, <<".co.ug", "co_ug">>,
    <<".co.th", "co_th">>, <<".in.th", "in_th">>,
    <<".ac.jp", "ac_jp">>, <<".ad.jp", "ad_jp">>, <<".co.jp", "co_jp">>,
    <<".ed.jp", "ed_jp">>, <<".go.jp", "go_jp">>, <<".gr.jp", "gr_jp">>,
    <<".lg.jp", "lg_jp">>, <<".ne.jp", "ne_jp">>, <<".or.jp", "or_jp">>,
    <<".geo.jp", "geo_jp">>,
    <<".com.au", "com_au">>, <<".com.sg", "com_sg">>,
    <<".com.tr", "com_tr">>, <<".edu.tr", "edu_tr">>, <<".org.tr", "org_tr">>,
    <<".edu.ua", "edu_ua">>, <<".lviv.ua", "lviv_ua">>,
    <<".hopto.org", "hopto_org">>, <<".duckdns.org", "duckdns_org">>,
    <<".no-ip.com", "noip_com">>, <<".no-ip.org", "noip_org">>,
    <<".ac.th", "ac_th">>, <<".co.ke", "co_ke">>, <<".com.bo", "com_bo">>,
    <<".com.ly", "com_ly">>, <<".com.tw", "com_tw">>, <<".com.np", "com_np">>,
    <<".go.th", "go_th">>, <<".com.ec", "com_ec">>, <<".gob.ec", "gob_ec">>,
    <<".co.zw", "com_zw">>, <<".org.zw", "org_zw">>, <<".com.py", "com_py">> >>

PythonKeyWordMap == <<
    <<"global", "global_">>, <<".id", "id_">>, <<".in", "in_">>,
    <<".is", "is_">>, <<".as", "as_">> >>

Utf8Map == << <<".xn--p1ai", "ru_rf">> >>

\* for i in table: if domain.endswith(i): return table[i]
Matches(table, dom) == \E i \in 1..Len(table) : endswith(dom, table[i][1])

FirstMatch(table, dom) ==
    LET i == CHOOSE j \in 1..Len(table) :
                 /\ endswith(dom, table[j][1])
                 /\ \A h \in 1..(j - 1) : ~endswith(dom, table[h][1])
    IN  table[i][2]

----------------------------------------------------------------------------
(* filterTldToSupportedPattern(domain, d): the identifier, the list d as   *)
(* the call leaves it (the ".name" rule rewrites d[0] in place), and the   *)
(* exception raised, if any (d[-1] of an empty list).                      *)

Classified(t, dl) == [tld |-> t, d |-> dl, error |-> None]

lastItem(dl) ==
    IF dl = <<>>
    THEN [tld |-> None, d |-> dl, error |-> "IndexError"]
    ELSE Classified(dl[Len(dl)], dl)

\* a classifier that never consults the tables: the last label, always
filterTld_LastLabelOnly(dom, dl) == lastItem(dl)

filterTldToSupportedPattern(dom, dl) ==
    IF Len(dl) > 2 /\ Matches(Map2Underscore, dom)
    THEN Classified(FirstMatch(Map2Underscore, dom), dl)
    ELSE IF Matches(PythonKeyWordMap, dom)
    THEN Classified(FirstMatch(PythonKeyWordMap, dom), dl)
    ELSE IF Matches(Utf8Map, dom)
    THEN Classified(FirstMatch(Utf8Map, dom), dl)
    ELSE IF endswith(dom, ".name")
    THEN IF dl = <<>>
         THEN [tld |-> None, d |-> dl, error |-> "IndexError"]
         ELSE Classified(dl[Len(dl)], [dl EXCEPT ![1] = "domain=" \o dl[1]])
    ELSE lastItem(dl)

----------------------------------------------------------------------------
(* internationalizedDomainNameToPunyCode(d)                                *)

\* str.encode("idna") of one label, as the standard codec computes it: an
\* ASCII label is returned as it is unless it has 64 characters or more; a
\* label with other characters goes through nameprep and punycode.
\* the ASCII characters that occur in domain names and in the inputs
ascii_chars == ascii_lowercase \o ascii_uppercase \o "0123456789-_=. "

ascii == {CharAt(ascii_chars, j) : j \in 1..Len(ascii_chars)}

isascii(s) == \A i \in 1..Len(s) : CharAt(s, i) \in ascii

\* the labels beyond ASCII among the inputs, with the codec's answer for each
NonAsciiLabels == << <<"bücher", "xn--bcher-kva">>, <<"ü", "xn--tda">> >>

encode_idna(k) ==
    IF isascii(k)
    THEN IF Len(k) >= 64
         THEN [error |-> "UnicodeError", value |-> ""]
         ELSE [error |-> None, value |-> k]
    ELSE IF \E i \in 1..Len(NonAsciiLabels) : NonAsciiLabels[i][1] = k
    THEN [error |-> None,
          value |-> NonAsciiLabels[CHOOSE i \in 1..Len(NonAsciiLabels) :
                                       NonAsciiLabels[i][1] = k][2]]
    ELSE [error |-> "UnicodeError", value |-> ""]

\* [k.encode("idna").decode() or k for k in d]
internationalizedDomainNameToPunyCode(dl) ==
    IF \E i \in 1..Len(dl) : encode_idna(dl[i]).error # None
    THEN [error |-> "UnicodeError", d |-> dl]
    ELSE [error |-> None,
          d |-> [i \in 1..Len(dl) |->
                    IF encode_idna(dl[i]).value # "" THEN encode_idna(dl[i]).value ELSE dl[i]]]

----------------------------------------------------------------------------
(* query(): the straight-line part, up to the retry loop                   *)

SLOW_DOWN == 0

\* domain.lower().strip().rstrip(".")
normalize(dom) == rstrip(strip(lower(dom)), {"."})

\* d = domain.split("."); if d[0] == "www": d = d[1:]
dropWww(dl) == IF dl[1] = "www" THEN Slice1(dl) ELSE dl

labels(dom) == dropWww(split(normalize(dom), "."))

\* if len(d) == 1: return None
isSingleLabel(dl) == Len(dl) = 1

\* the registry check left out
isUnknownTld_Dropped(t, registry) == FALSE

\* tld not in TLD_RE.keys()
isUnknownTld(t, registry) == t \notin DOMAIN registry

\* thisTld = TLD_RE.get(tld)
registryGet(registry, t) == IF t \in DOMAIN registry THEN registry[t] ELSE <<>>

\* the private-registry check left out
isPrivateRegistry_Dropped(thisTld) == FALSE

\* thisTld.get("_privateRegistry")
isPrivateRegistry(thisTld) ==
    "_privateRegistry" \in DOMAIN thisTld /\ thisTld["_privateRegistry"] = TRUE

\* the override of the registry taken even when the caller named a server
effectiveServer_MetadataFirst(srv, thisTld) ==
    IF "_server" \in DOMAIN thisTld /\ thisTld["_server"] # ""
    THEN thisTld["_server"]
    ELSE srv

\* if server is None and thisTldServer: server = thisTldServer
effectiveServer(srv, thisTld) ==
    IF srv = None /\ "_server" \in DOMAIN thisTld /\ thisTld["_server"] # ""
    THEN thisTld["_server"]
    ELSE srv

\* the minimum delay of the registry taken even when the caller gave a delay
effectiveSlowDown_MetadataFirst(slow, thisTld) ==
    IF "_slowdown" \in DOMAIN thisTld /\ thisTld["_slowdown"] > 0
    THEN thisTld["_slowdown"]
    ELSE IF slow # 0 THEN slow ELSE SLOW_DOWN

\* slow_down = slow_down or SLOW_DOWN
\* if slow_down == 0 and slowDown and slowDown > 0: slow_down = slowDown
effectiveSlowDown(slow, thisTld) ==
    LET slow0 == IF slow # 0 THEN slow ELSE SLOW_DOWN
    IN  IF slow0 = 0 /\ "_slowdown" \in DOMAIN thisTld /\ thisTld["_slowdown"] > 0
        THEN thisTld["_slowdown"]
        ELSE slow0

\* tldLevel = tld.split("_")
tldLevelOf(t) == split(t, "_")

\* if internationalized and isinstance(internationalized, bool): d = ...(d)
converted(a, dl) ==
    IF a.internationalized
    THEN internationalizedDomainNameToPunyCode(dl)
    ELSE [error |-> None, d |-> dl]

----------------------------------------------------------------------------
(* query(): the retry loop                                                 *)

PdNone == [kind |-> "None"]
Pd(names) == [kind |-> "dict", domain_name |-> names]

\* the test of the first element left out: any dict with names counts
hasDomainName_AnyName(pd) == pd.kind = "dict" /\ pd.domain_name # <<>>

\* pd and pd["domain_name"][0]; an empty domain_name list raises IndexError
subscriptFails(pd) == pd.kind = "dict" /\ pd.domain_name = <<>>
hasDomainName(pd) == pd.kind = "dict" /\ pd.domain_name # <<>> /\ pd.domain_name[1] # ""

\* the bound one label too low: len(d) > len(tldLevel)
canReduce_TooFar(dl, level) == Len(dl) > Len(level)

\* the bound off by one
canReduce_OffByOne(dl, level) == Len(dl) > Len(level) + 2

\* len(d) > (len(tldLevel) + 1)
canReduce(dl, level) == Len(dl) > Len(level) + 1

\* the label list left as it is
reduced_Unchanged(dl) == dl

\* the last label dropped instead of the first: d[:-1]
reduced_DropsLast(dl) == IF dl = <<>> THEN <<>> ELSE SubSeq(dl, 1, Len(dl) - 1)

\* d = d[1:]
reduced(dl) == Slice1(dl)

\* the keyword arguments of the do_query call, and whether the call raised
LookupCall(r) ==
    [dl |-> d, force |-> args.force, slow_down |-> slow_down, server |-> server,
     raised |-> r]

\* the keyword arguments of the do_parse call, and what it returned
ParseCall(pd) == [tld |-> tld, dl |-> d, pd |-> pd]

----------------------------------------------------------------------------
(* The calls explored: the domain strings, the other arguments, and the    *)
(* contents of the registry                                                *)

MaxPrefix == 2

HostLabels == {"www", "a"}

Suffixes == {"com", "uk", "co.uk", "ac.uk", "co.il", "is", "global", "name",
             "xn--p1ai", "co_il", "faketld", ""}

Prefixes == UNION {[1..n -> HostLabels] : n \in 0..MaxPrefix}

LongLabel == "aaaaaaaaaaaaaaaaaaaaaaaaaaaaaaaaaaaaaaaaaaaaaaaaaaaaaaaaaaaaaaaa"

NamedDomains == {"sub.example.co.uk", "a.b.co.uk", "a.b.co.il", "x.notglobal",
                 "www.google.com", "nonexistent.faketld", " WWW.Example.COM. ",
                 "example.is", "a..com", "a.b.c.com", "bücher.com",
                 LongLabel \o ".com"}

Domains == {join(p \o <<s>>, ".") : p \in Prefixes, s \in Suffixes} \cup NamedDomains

Entries == {"query", "get"}

Args == [entry : Entries,
         domain : Domains,
         force : BOOLEAN,
         slow_down : {0, 5},
         server : {None, "whois.example.net"},
         internationalized : BOOLEAN]

RegisteredTlds == {"com", "uk", "il", "co_uk", "ac_uk", "co_il", "name", "ru_rf",
                   "is_", "id_", "in_", "as_", "global_"}

NoHints == <<>>

Metas == {NoHints,
          "_privateRegistry" :> TRUE,
          "_server" :> "whois.registry.example",
          "_slowdown" :> 2,
          ("_server" :> "whois.registry.example") @@ ("_slowdown" :> 2)}

Registries == {[t \in RegisteredTlds |-> m] : m \in Metas}

\* what do_parse may return for the label list dl
ParseResults(dl) == {PdNone, Pd(<<>>), Pd(<<"">>), Pd(<<join(dl, ".")>>)}

----------------------------------------------------------------------------
(* The state machine of one query() call                                   *)

\* what a call hands to its caller: a value, or an exception raised
Running == [kind |-> "running"]
Raised(exc) == [kind |-> "raise", exc |-> exc]
EmptyDict == [kind |-> "dict", items |-> <<>>]

\* line 288: Domain(pd, ...), the record built from the parse
Domain(pd) == [kind |-> "Domain", fields |-> [domain_name |-> pd.domain_name]]

\* vars(r): the mapping of the record's fields
varsOf(r) == [kind |-> "dict", items |-> r.fields]

\* Python truth of a value: None and the empty mapping are false, an object is true
truthy(v) == v.kind = "Domain" \/ (v.kind = "dict" /\ DOMAIN v.items # {})

\* lines 221, 288, 297 and every raise: what query() hands back
queryReturns(how, pd) ==
    IF how = "record" THEN Domain(pd)
    ELSE IF how = "None" THEN PdNone
    ELSE Raised(how)

\* an _inner that answers an exception of func with the empty mapping
result2dict_Suppressing(r) ==
    IF r.kind = "raise" THEN EmptyDict
    ELSE IF truthy(r) /\ truthy(varsOf(r)) THEN varsOf(r)
    ELSE EmptyDict

\* lines 178-184: _inner; r = func(*args, **kw) lets an exception through,
\* and the value is r and vars(r) or {}
result2dict(r) ==
    IF r.kind = "raise" THEN r
    ELSE IF truthy(r) /\ truthy(varsOf(r)) THEN varsOf(r)
    ELSE EmptyDict

\* the arguments before any call is made
NoCall == [entry |-> "query", domain |-> "", force |-> FALSE, slow_down |-> 0, server |-> None,
           internationalized |-> FALSE]

\* the package is imported: the registry is filled and no call is under way
Init ==
    /\ TLD_RE \in Registries
    /\ args = NoCall
    /\ pc = "idle"
    /\ domain = ""
    /\ d = <<>>
    /\ tld = None
    /\ tldLevel = <<>>
    /\ server = None
    /\ slow_down = 0
    /\ lookups = <<>>
    /\ parses = <<>>
    /\ outcome = "running"
    /\ result = PdNone
    /\ returned = Running

\* lines 187-218: query(domain, force, slow_down, server, internationalized)
\* is called (the arguments the model leaves out are only handed on); the
\* domain is normalized and split into d
Query ==
    /\ pc = "idle"
    /\ \E a \in Args :
        /\ args' = a
        /\ server' = a.server
        /\ slow_down' = a.slow_down
        /\ \E dom \in {normalize(a.domain)} :
            /\ domain' = dom
            /\ \E dl \in {split(dom, ".")} : d' = dropWww(dl)
    /\ pc' = "start"
    /\ UNCHANGED <<TLD_RE, tld, tldLevel, lookups, parses, outcome, result, returned>>

\* query() returns or raises; when the call came in through get, the value
\* passes through _inner (lines 180-182) on its way to the caller
Finish(how, pd) ==
    /\ pc' = "done"
    /\ outcome' = how
    /\ result' = pd
    /\ returned' = IF args.entry = "get"
                   THEN result2dict(queryReturns(how, pd))
                   ELSE queryReturns(how, pd)

\* lines 220-221: a single label is answered with None at once
ReturnNoneSingleLabel ==
    /\ pc = "start"
    /\ isSingleLabel(d)
    /\ Finish("None", PdNone)
    /\ UNCHANGED <<TLD_RE, args, domain, d, tld, tldLevel, server, slow_down, lookups, parses>>

\* line 223: the classifier returns the identifier (and may have rewritten d[0])
Classify ==
    /\ pc = "start"
    /\ ~isSingleLabel(d)
    /\ \E c \in {filterTldToSupportedPattern(domain, d)} :
        /\ c.error = None
        /\ tld' = c.tld
        /\ d' = c.d
    /\ pc' = "classified"
    /\ UNCHANGED <<TLD_RE, args, domain, tldLevel, server, slow_down, lookups, parses,
                   outcome, result, returned>>

\* lines 223 and 171: d[-1] of the empty list raises IndexError
RaiseIndexError ==
    /\ pc = "start"
    /\ ~isSingleLabel(d)
    /\ \E c \in {filterTldToSupportedPattern(domain, d)} :
        /\ c.error # None
        /\ Finish(c.error, PdNone)
    /\ UNCHANGED <<TLD_RE, args, domain, d, tld, tldLevel, server, slow_down, lookups, parses>>

\* lines 225-229: raise UnknownTld
RaiseUnknownTld ==
    /\ pc = "classified"
    /\ isUnknownTld(tld, TLD_RE)
    /\ Finish("UnknownTld", PdNone)
    /\ UNCHANGED <<TLD_RE, args, domain, d, tld, tldLevel, server, slow_down, lookups, parses>>

\* lines 232-235: raise WhoisPrivateRegistry
RaiseWhoisPrivateRegistry ==
    /\ pc = "classified"
    /\ ~isUnknownTld(tld, TLD_RE)
    /\ isPrivateRegistry(registryGet(TLD_RE, tld))
    /\ Finish("WhoisPrivateRegistry", PdNone)
    /\ UNCHANGED <<TLD_RE, args, domain, d, tld, tldLevel, server, slow_down, lookups, parses>>

\* lines 237-262: server, slow_down, tldLevel and d are set and the loop is entered
EnterLoop ==
    /\ pc = "classified"
    /\ ~isUnknownTld(tld, TLD_RE)
    /\ ~isPrivateRegistry(registryGet(TLD_RE, tld))
    /\ server' = effectiveServer(server, registryGet(TLD_RE, tld))
    /\ slow_down' = effectiveSlowDown(slow_down, registryGet(TLD_RE, tld))
    /\ tldLevel' = tldLevelOf(tld)
    /\ \E e \in {converted(args, d)} :
        /\ e.error = None
        /\ d' = e.d
    /\ pc' = "do_query"
    /\ UNCHANGED <<TLD_RE, args, domain, tld, lookups, parses, outcome, result, returned>>

\* lines 257-260 and 175: the idna codec rejects a label
RaiseUnicodeError ==
    /\ pc = "classified"
    /\ ~isUnknownTld(tld, TLD_RE)
    /\ ~isPrivateRegistry(registryGet(TLD_RE, tld))
    /\ \E e \in {converted(args, d)} :
        /\ e.error # None
        /\ Finish(e.error, PdNone)
    /\ UNCHANGED <<TLD_RE, args, domain, d, tld, tldLevel, server, slow_down, lookups, parses>>

\* lines 265-273: do_query returns the raw text
DoQueryReturns ==
    /\ pc = "do_query"
    /\ lookups' = Append(lookups, LookupCall(FALSE))
    /\ pc' = "do_parse"
    /\ UNCHANGED <<TLD_RE, args, domain, d, tld, tldLevel, server, slow_down, parses, outcome, result, returned>>

\* a failed do_query handled as an attempt without a result
DoQueryRaises_Swallowed ==
    /\ pc = "do_query"
    /\ lookups' = Append(lookups, LookupCall(TRUE))
    /\ IF canReduce(d, tldLevel)
       THEN /\ d' = reduced(d)
            /\ pc' = "do_query"
            /\ UNCHANGED <<outcome, result, returned>>
       ELSE /\ d' = d
            /\ Finish("None", PdNone)
    /\ UNCHANGED <<TLD_RE, args, domain, tld, tldLevel, server, slow_down, parses>>

\* lines 265-273: do_query raises; nothing in query() catches it
DoQueryRaises ==
    /\ pc = "do_query"
    /\ lookups' = Append(lookups, LookupCall(TRUE))
    /\ Finish("WhoisCommandFailed", PdNone)
    /\ UNCHANGED <<TLD_RE, args, domain, d, tld, tldLevel, server, slow_down, parses>>

\* lines 275-281: do_parse raises; nothing in query() catches it
DoParseRaises ==
    /\ pc = "do_parse"
    /\ parses' = Append(parses, ParseCall([kind |-> "raised"]))
    /\ Finish("FailedParsingWhoisOutput", PdNone)
    /\ UNCHANGED <<TLD_RE, args, domain, d, tld, tldLevel, server, slow_down, lookups>>

\* lines 275-284: do_parse returns a dict with an empty domain_name list
RaiseIndexErrorOnDomainName ==
    /\ pc = "do_parse"
    /\ \E pd \in ParseResults(d) :
        /\ subscriptFails(pd)
        /\ parses' = Append(parses, ParseCall(pd))
    /\ Finish("IndexError", PdNone)
    /\ UNCHANGED <<TLD_RE, args, domain, d, tld, tldLevel, server, slow_down, lookups>>

\* lines 275-288: the parse has a domain name, and the Domain is returned
ReturnDomain ==
    /\ pc = "do_parse"
    /\ \E pd \in ParseResults(d) :
        /\ ~subscriptFails(pd)
        /\ hasDomainName(pd)
        /\ parses' = Append(parses, ParseCall(pd))
        /\ Finish("record", pd)
    /\ UNCHANGED <<TLD_RE, args, domain, d, tld, tldLevel, server, slow_down, lookups>>

\* lines 275-294: no domain name, and d can lose its first label
Retry ==
    /\ pc = "do_parse"
    /\ \E pd \in ParseResults(d) :
        /\ ~subscriptFails(pd)
        /\ ~hasDomainName(pd)
        /\ parses' = Append(parses, ParseCall(pd))
    /\ canReduce(d, tldLevel)
    /\ d' = reduced(d)
    /\ pc' = "do_query"
    /\ UNCHANGED <<TLD_RE, args, domain, tld, tldLevel, server, slow_down, lookups, outcome, result, returned>>

\* lines 275-297: no domain name, and d cannot be reduced any further
ReturnNoneExhausted ==
    /\ pc = "do_parse"
    /\ \E pd \in ParseResults(d) :
        /\ ~subscriptFails(pd)
        /\ ~hasDomainName(pd)
        /\ parses' = Append(parses, ParseCall(pd))
    /\ ~canReduce(d, tldLevel)
    /\ Finish("None", PdNone)
    /\ UNCHANGED <<TLD_RE, args, domain, d, tld, tldLevel, server, slow_down, lookups>>

Next ==
    \/ Query
    \/ ReturnNoneSingleLabel
    \/ Classify
    \/ RaiseIndexError
    \/ RaiseUnknownTld
    \/ RaiseWhoisPrivateRegistry
    \/ RaiseUnicodeError
    \/ EnterLoop
    \/ DoQueryReturns
    \/ DoQueryRaises
    \/ DoParseRaises
    \/ RaiseIndexErrorOnDomainName
    \/ ReturnDomain
    \/ Retry
    \/ ReturnNoneExhausted

Spec == Init /\ [][Next]_vars

\* query() is synchronous: while it has not returned, its next step is taken
FairSpec == Spec /\ WF_vars(Next)

----------------------------------------------------------------------------
(* Properties                                                              *)

\* what each domain string normalizes and classifies to
RawLabelsOf == [dom \in Domains |-> split(normalize(dom), ".")]
LabelsOf == [dom \in Domains |-> labels(dom)]
ClassOf == [dom \in Domains |-> filterTldToSupportedPattern(normalize(dom), labels(dom))]

\* the same, for the domain argument of the call
RawLabels == RawLabelsOf[args.domain]
CallLabels == LabelsOf[args.domain]
CallClass == ClassOf[args.domain]
Classifies == Len(CallLabels) # 1 /\ CallClass.error = None

\* the label lists of the do_query calls, in order
LookupLabels == [i \in 1..Len(lookups) |-> lookups[i].dl]

\* a parse result that counts as a result: a dict whose first name is non-empty
GoodParse(pd) == pd.kind = "dict" /\ pd.domain_name # <<>> /\ pd.domain_name[1] # ""

\* C1: a domain string of a single label (no dot once lowercased, stripped
\* and without its trailing dots) makes query return None with no do_query
\* call, the string "www" and the empty string included.
C1_SingleLabelReturnsNone ==
    (Len(RawLabels) = 1 /\ pc = "done") => (outcome = "None" /\ lookups = <<>>)

\* C2: when the classified identifier is no key of TLD_RE, query raises
\* UnknownTld with no do_query and no do_parse call made, and never goes on
\* to a shorter label sequence.
C2_UnknownTldBeforeAnyCall ==
    (Classifies /\ CallClass.tld \notin DOMAIN TLD_RE) =>
        /\ lookups = <<>> /\ parses = <<>> /\ d \in {<<>>, CallLabels, CallClass.d}
        /\ pc \in {"idle", "start", "classified", "done"}
        /\ pc = "done" => outcome = "UnknownTld"

C2_Witness ==
    /\ pc = "done" /\ outcome = "UnknownTld"
    /\ Len(CallLabels) >= 3 /\ CallClass.tld \notin DOMAIN TLD_RE

\* C3: when the classified identifier is in TLD_RE with _privateRegistry set,
\* query raises WhoisPrivateRegistry with no do_query call made, whatever the
\* server, slow_down, force and internationalized arguments are.
C3_PrivateRegistryBeforeAnyCall ==
    (/\ Classifies
     /\ CallClass.tld \in DOMAIN TLD_RE
     /\ "_privateRegistry" \in DOMAIN TLD_RE[CallClass.tld]
     /\ TLD_RE[CallClass.tld]["_privateRegistry"] = TRUE) =>
        /\ lookups = <<>> /\ parses = <<>>
        /\ pc \in {"idle", "start", "classified", "done"}
        /\ pc = "done" => outcome = "WhoisPrivateRegistry"

C3_Witness ==
    /\ pc = "done" /\ outcome = "WhoisPrivateRegistry"
    /\ args.server # None /\ args.slow_down # 0 /\ args.force /\ args.internationalized

\* C4: with n the length of the normalized label sequence and k the number
\* of parts of the identifier split on "_", a call makes at most n - k - 1
\* retries after its first do_query call.
C4_RetryBound ==
    lookups # <<>> => Len(lookups) - 1 <= Len(CallLabels) - Len(tldLevel) - 1

\* C5: every label sequence handed to do_query has at least k + 1 labels, k
\* being the number of parts of the identifier split on "_".
C5_LookupHasDepthPlusOneLabels ==
    \A i \in 1..Len(lookups) : Len(lookups[i].dl) >= Len(tldLevel) + 1

\* C6: every call ends (a record, None or an exception), since each retry
\* removes exactly one label and a retry is made only while d has more than
\* k + 1 labels.
C6_Terminates ==
    /\ <>(pc = "done")
    /\ [][(pc = "do_parse" /\ pc' = "do_query") =>
            (Len(d') = Len(d) - 1 /\ Len(d) > Len(tldLevel) + 1)]_vars

C6_Witness == pc = "done" /\ Len(lookups) >= 3

\* C7: a record is returned exactly when some parse gave a dict whose first
\* domain name is non-empty; it is built from that parse, which is the first
\* such one and the last call made (attempts run from the longest label
\* sequence down); None is returned from the loop only after the attempt
\* that cannot be reduced any further has failed too.
C7_FirstResultWins ==
    /\ (outcome = "record") <=> (\E i \in 1..Len(parses) : GoodParse(parses[i].pd))
    /\ \A i \in 1..Len(parses) :
          GoodParse(parses[i].pd) =>
              /\ i = Len(parses) /\ Len(lookups) = i
              /\ pc = "done" /\ result = parses[i].pd
              /\ parses[i].dl = lookups[i].dl
    /\ \A i, j \in 1..Len(lookups) : i < j => Len(lookups[i].dl) > Len(lookups[j].dl)
    /\ (outcome = "None" /\ lookups # <<>>) =>
          /\ Len(parses) = Len(lookups)
          /\ Len(parses[Len(parses)].dl) <= Len(tldLevel) + 1
          /\ \A i \in 1..Len(parses) : ~GoodParse(parses[i].pd)

C7_Witness ==
    /\ outcome = "record" /\ Len(parses) >= 2
    /\ parses[1].pd = Pd(<<"">>) /\ GoodParse(result)

\* C8 as stated: for "sub.example.co.uk" with every parse failing, do_query
\* is called with [sub,example,co,uk] and then [example,co,uk] and with
\* nothing else, the depth being 2.
C8_TwoLookupsDepthTwo ==
    (args.domain = "sub.example.co.uk" /\ pc = "done" /\ outcome = "None") =>
        /\ LookupLabels = << <<"sub", "example", "co", "uk">>, <<"example", "co", "uk">> >>
        /\ tld = "co_uk"
        /\ Len(tldLevel) = 2

\* C8 as the code has it: "sub.example.co.uk" is classified uk, of depth 1
\* (the compound table has no ".co.uk"); with every parse failing do_query
\* is called with [sub,example,co,uk], [example,co,uk] and [co,uk], and the
\* loop stops after that third attempt whatever its outcome.
C8_ThreeLookupsDepthOne ==
    LET all == << <<"sub", "example", "co", "uk">>, <<"example", "co", "uk">>,
                  <<"co", "uk">> >>
    IN  args.domain = "sub.example.co.uk" =>
            /\ Len(lookups) <= 3
            /\ LookupLabels = SubSeq(all, 1, Len(lookups))
            /\ tld # None => tld = "uk"
            /\ lookups # <<>> => tldLevel = <<"uk">>
            /\ (pc = "done" /\ outcome = "None") => Len(lookups) = 3

C8_Witness ==
    /\ args.domain = "sub.example.co.uk" /\ pc = "done" /\ outcome = "None"
    /\ Len(lookups) = 3 /\ lookups[3].dl = <<"co", "uk">>

\* C9 as stated: a.b.co.uk is classified co_uk and a.b.co.il is classified
\* co_il.
C9_BothCompound ==
    tld # None =>
        /\ args.domain = "a.b.co.uk" => tld = "co_uk"
        /\ args.domain = "a.b.co.il" => tld = "co_il"

\* C9 as the code has it: a.b.co.il is classified co_il by the compound
\* table, not il; a.b.co.uk, for which the table has no entry, is classified
\* by its last label, uk.
C9_CompoundOnlyWhereListed ==
    /\ tld # None =>
        /\ args.domain = "a.b.co.il" => tld = "co_il"
        /\ args.domain = "a.b.co.uk" => tld = "uk"
    /\ lookups # <<>> =>
        /\ args.domain = "a.b.co.il" => tldLevel = <<"co", "il">>
        /\ args.domain = "a.b.co.uk" => tldLevel = <<"uk">>

C9_Witness == args.domain = "a.b.co.il" /\ tld = "co_il" /\ lookups # <<>>

\* C10: a do_query call that raises, on the first attempt or on a retry,
\* ends the call with that exception: it is not turned into None, it is not
\* followed by a parse of that attempt, and no other call follows it.
C10_LookupFailureSurfaces ==
    /\ \A i \in 1..Len(lookups) :
          lookups[i].raised =>
              /\ i = Len(lookups) /\ Len(parses) = i - 1
              /\ pc = "done" /\ outcome = "WhoisCommandFailed"
    /\ outcome = "WhoisCommandFailed" => lookups[Len(lookups)].raised

C10_Witness ==
    /\ outcome = "WhoisCommandFailed"
    /\ Len(lookups) >= 2 /\ lookups[Len(lookups)].raised

\* C11: when the call came in through get, a record query() returns reaches
\* the caller as the plain mapping of the record's fields, absence reaches it
\* as the empty mapping, and an exception query() raises reaches it as that
\* same exception, never as a mapping.
C11_GetMapsOutcome ==
    (pc = "done" /\ args.entry = "get") =>
        /\ outcome = "record" =>
                returned = [kind |-> "dict",
                            items |-> [domain_name |-> result.domain_name]]
        /\ outcome = "None" => returned = EmptyDict
        /\ outcome \notin {"record", "None"} => returned = Raised(outcome)

\* a call through get ended in a transport failure of do_query, handed on as raised
C11_Witness ==
    /\ pc = "done"
    /\ args.entry = "get"
    /\ outcome = "WhoisCommandFailed"
    /\ lookups # <<>>
    /\ returned = Raised("WhoisCommandFailed")

\* the metadata of the classified identifier, once a lookup has been made
ThisTld == TLD_RE[tld]

\* C12: every do_query call of one query is handed the same delay: the
\* caller's when it is not zero, else the minimum delay of the identifier's
\* metadata when there is one, else zero.
C12_DelayResolvedOnce ==
    \A i \in 1..Len(lookups) :
        lookups[i].slow_down =
            IF args.slow_down # 0 THEN args.slow_down
            ELSE IF "_slowdown" \in DOMAIN ThisTld THEN ThisTld["_slowdown"]
            ELSE 0

\* a retried query without a delay of its own, run at the registry's minimum
C12_Witness ==
    /\ Len(lookups) >= 2
    /\ args.slow_down = 0
    /\ "_slowdown" \in DOMAIN ThisTld
    /\ lookups[1].slow_down = 2
    /\ lookups[2].slow_down = 2

\* C13: every do_query call of one query is handed the same server: the
\* caller's when one was given, else the override of the identifier's
\* metadata when there is one, else None.
C13_ServerResolvedOnce ==
    \A i \in 1..Len(lookups) :
        lookups[i].server =
            IF args.server # None THEN args.server
            ELSE IF "_server" \in DOMAIN ThisTld THEN ThisTld["_server"]
            ELSE None

\* a retried query with a server of its own, under a registry with an override
C13_Witness ==
    /\ Len(lookups) >= 2
    /\ args.server = "whois.example.net"
    /\ "_server" \in DOMAIN ThisTld
    /\ lookups[1].server = "whois.example.net"
    /\ lookups[2].server = "whois.example.net"

\* the last do_parse call made, and whether it returned without a domain name
LastParse == parses[Len(parses)]
ParseWithoutName(pd) == pd = PdNone \/ pd = Pd(<<>>) \/ pd = Pd(<<"">>)

\* C14: a do_parse that returns None, a dict with an empty domain_name list
\* or a dict whose first domain name is empty never makes query() raise: the
\* call goes on to a retry or ends with None.
C14_ParseOutcomeNeverRaises ==
    (pc = "done" /\ parses # <<>> /\ ParseWithoutName(LastParse.pd)) =>
        outcome = "None"

\* the literal suffix an identifier stands for: the key of the table row that
\* yields it, or the identifier itself when no table row does; and the number
\* of labels of that suffix
AllTables == Map2Underscore \o PythonKeyWordMap \o Utf8Map
SuffixOf(t) ==
    IF \E i \in 1..Len(AllTables) : AllTables[i][2] = t
    THEN AllTables[CHOOSE i \in 1..Len(AllTables) : AllTables[i][2] = t][1]
    ELSE t
SuffixLabels(t) ==
    LET parts == split(SuffixOf(t), ".")
    IN  Cardinality({i \in 1..Len(parts) : parts[i] # ""})

\* C15: the depth the loop works with, the number of "_"-separated parts of
\* the identifier, is the number of labels of the suffix the identifier
\* stands for: 1 for is_, in_, id_, as_, global_ and ru_rf, 2 for the
\* identifiers of two-label suffixes.
C15_DepthIsSuffixLabelCount ==
    lookups # <<>> => Len(tldLevel) = SuffixLabels(tld)

\* whether the labels dl, joined, are a suffix listed in the compound table
isCompoundSuffix(dl) ==
    \E i \in 1..Len(Map2Underscore) : Map2Underscore[i][1] = "." \o join(dl, ".")

\* C16: no do_query call is made for a label list that is itself a suffix:
\* not for a single label, and not for exactly the labels of a suffix of the
\* compound table (such as ac, uk).
C16_NeverLooksUpBareSuffix ==
    \A i \in 1..Len(lookups) :
        /\ Len(lookups[i].dl) >= 2
        /\ ~isCompoundSuffix(lookups[i].dl)

\* C17: with internationalized = True the conversion of d never makes
\* query() raise: a label the idna codec rejects is kept as it is, the
\* converted list has as many labels as d had, and the lookup is made.
C17_EncodingFailureNeverRaises ==
    args.internationalized =>
        /\ outcome # "UnicodeError"
        /\ lookups # <<>> => Len(lookups[1].dl) = Len(CallClass.d)

\* C18: every do_query call after the first is made with the label list of
\* the call before it less its first label; the do_parse call of an attempt
\* gets the label list and the identifier of that attempt's do_query call;
\* and a retry leaves the identifier and the depth as they were.
C18_RetryDropsLeftmostLabel ==
    /\ [](/\ \A i \in 2..Len(lookups) : lookups[i].dl = Tail(lookups[i - 1].dl)
          /\ Len(parses) <= Len(lookups)
          /\ \A i \in 1..Len(parses) :
                /\ parses[i].dl = lookups[i].dl
                /\ parses[i].tld = parses[1].tld)
    /\ [][(pc = "do_parse" /\ pc' = "do_query") =>
              (d' = Tail(d) /\ tld' = tld /\ tldLevel' = tldLevel)]_vars

\* a.b.co.il was looked up and parsed, then b.co.il was looked up and parsed
C18_Witness ==
    /\ Len(lookups) = 2
    /\ Len(parses) = 2
    /\ tld = "co_il"
    /\ lookups[1].dl = <<"a", "b", "co", "il">>
    /\ lookups[2].dl = <<"b", "co", "il">>
    /\ parses[2].dl = <<"b", "co", "il">>

\* the last labels the reserved-identifier rule is meant for, and its identifiers
ReservedLabels == {"is", "as", "in", "id", "global"}
ReservedIds == {"is_", "as_", "in_", "id_", "global_"}

\* C19: the classifier returns a reserved identifier only for a domain whose
\* last label is exactly is, as, in, id or global; a domain with another
\* last label that no compound, non-ASCII or .name rule matches is
\* classified by that last label (x.notglobal by notglobal).
C19_ReservedOnlyOnExactLabel ==
    (pc \notin {"idle", "start"} /\ tld # None) =>
        LET last == CallLabels[Len(CallLabels)]
        IN  /\ tld \in ReservedIds => last \in ReservedLabels
            /\ ( /\ last \notin ReservedLabels
                 /\ ~(Len(CallLabels) > 2 /\ Matches(Map2Underscore, domain))
                 /\ ~Matches(Utf8Map, domain)
                 /\ ~endswith(domain, ".name") ) => tld = last

\* C20: whatever the domain, the registry and the depth, every do_query call
\* is made with a label list of at least 2 labels.
C20_LookupHasTwoLabels ==
    \A i \in 1..Len(lookups) : Len(lookups[i].dl) >= 2

\* a call retried down to its last two labels, which ended with None
C20_Witness ==
    /\ pc = "done"
    /\ outcome = "None"
    /\ Len(tldLevel) = 1
    /\ Len(lookups) = 3
    /\ Len(lookups[1].dl) = 4
    /\ Len(lookups[3].dl) = 2

====
